---------------------------- MODULE Spec2Model ----------------------------
(***************************************************************************)
(* Settings vocabulary, PortSettings and the configure / reconfigure       *)
(* read-modify-write protocol of the serial crate (src/src/lib.rs).        *)
(***************************************************************************)
EXTENDS Integers, Sequences, FiniteSets, TLC

(***************************************************************************)
(* Bounds                                                                  *)
(***************************************************************************)
\* BaudOther(n) is modelled for n in 1..MaxOtherRate
MaxOtherRate == 2
\* an error value is converted at most MaxHops times in a row
MaxHops == 2
\* timeouts are 0..MaxTimeout (in units of time)
MaxTimeout == 2

(***************************************************************************)
(* Option<T> and Result<(), Error>                                         *)
(***************************************************************************)
None == <<>>
Some(x) == <<x>>
IsSome(o) == Len(o) = 1
Unwrap(o) == o[1]

(***************************************************************************)
(* Settings vocabulary: lib.rs 190-271                                     *)
(***************************************************************************)
StandardBaudTags ==
    {"Baud110", "Baud300", "Baud600", "Baud1200", "Baud2400", "Baud4800",
     "Baud9600", "Baud19200", "Baud38400", "Baud57600", "Baud115200"}
Baud(t) == [tag |-> t, n |-> 0]
BaudOther(n) == [tag |-> "BaudOther", n |-> n]
BaudRate == {Baud(t) : t \in StandardBaudTags} \cup {BaudOther(n) : n \in 1..MaxOtherRate}
CharSize == {"Bits5", "Bits6", "Bits7", "Bits8"}
Parity == {"ParityNone", "ParityOdd", "ParityEven"}
StopBits == {"Stop1", "Stop2"}
FlowControl == {"FlowNone", "FlowSoftware", "FlowHardware"}

(***************************************************************************)
(* Error model: lib.rs 43-79                                               *)
(***************************************************************************)
NoDevice == [tag |-> "NoDevice", io |-> "-"]
InvalidInput == [tag |-> "InvalidInput", io |-> "-"]
Io(k) == [tag |-> "Io", io |-> k]
Error_new(kind, description) == [kind |-> kind, description |-> description]

Ok == [ok |-> TRUE, error |-> Error_new([tag |-> "-", io |-> "-"], "-")]
Err(e) == [ok |-> FALSE, error |-> e]

\* lib.rs 76-78, 81-85, 88-90
Error_kind(self) == self.kind
Error_display(self) == self.description
Error_description(self) == self.description

(***************************************************************************)
(* std::io::Error as the conversions use it (lib.rs 93-109): a kind and one *)
(* of three representations, each with its own Display text.               *)
(***************************************************************************)
IoErrorKind == {"NotFound", "PermissionDenied", "InvalidInput", "TimedOut", "Other"}
Descriptions == {"", "device disconnected", "unsupported baud rate"}

\* io::Error::new(kind, description)
io_Error_new(kind, description) ==
    [kind |-> kind, repr |-> "Custom", message |-> description, code |-> 0]
\* io::Error::from_raw_os_error(code): the kind is decoded from the code
io_Error_os(code) ==
    [kind |-> IF code = 2 THEN "NotFound" ELSE IF code = 13 THEN "PermissionDenied"
              ELSE "Other",
     repr |-> "Os",
     message |-> IF code = 2 THEN "No such file or directory"
                 ELSE IF code = 13 THEN "Permission denied" ELSE "Input/output error",
     code |-> code]
\* io::Error::from(kind)
io_Error_simple(kind) == [kind |-> kind, repr |-> "Simple", message |-> "", code |-> 0]

io_Error_kind(self) == self.kind
\* format!("{}", io_error)
io_Error_display(self) ==
    IF self.repr = "Custom" THEN self.message
    ELSE IF self.repr = "Os"
         THEN self.message \o " (os error " \o ToString(self.code) \o ")"
         ELSE IF self.kind = "NotFound" THEN "entity not found"
              ELSE IF self.kind = "PermissionDenied" THEN "permission denied"
              ELSE IF self.kind = "InvalidInput" THEN "invalid input parameter"
              ELSE IF self.kind = "TimedOut" THEN "timed out"
              ELSE "other error"
\* format!("{:?}", io_error)
io_Error_debug(self) ==
    IF self.repr = "Custom"
    THEN "Custom { kind: " \o self.kind \o ", error: \"" \o self.message \o "\" }"
    ELSE IF self.repr = "Os"
         THEN "Os { code: " \o ToString(self.code) \o ", kind: " \o self.kind \o " }"
         ELSE "Kind(" \o self.kind \o ")"

\* mutant: the description is taken from the Debug text of the I/O error
Error_from_io_debug(io_error) ==
    Error_new(Io(io_Error_kind(io_error)), io_Error_debug(io_error))

\* mutant: NotFound and InvalidInput are classified back into the serial kinds
Error_from_io_classifying(io_error) ==
    Error_new(IF io_Error_kind(io_error) = "NotFound" THEN NoDevice
              ELSE IF io_Error_kind(io_error) = "InvalidInput" THEN InvalidInput
              ELSE Io(io_Error_kind(io_error)),
              io_Error_display(io_error))

\* lib.rs 93-97: impl From<io::Error> for Error
Error_from_io(io_error) == Error_new(Io(io_Error_kind(io_error)), io_Error_display(io_error))

\* mutant: NoDevice is mapped to the catch-all kind
io_Error_from_nodevice_other(error) ==
    LET kind == IF error.kind = NoDevice THEN "Other"
                ELSE IF error.kind = InvalidInput THEN "InvalidInput"
                ELSE error.kind.io
    IN  io_Error_new(kind, error.description)

\* lib.rs 99-109: impl From<Error> for io::Error
io_Error_from(error) ==
    LET kind == IF error.kind = NoDevice THEN "NotFound"
                ELSE IF error.kind = InvalidInput THEN "InvalidInput"
                ELSE error.kind.io
    IN  io_Error_new(kind, error.description)

SerialErrors ==
    {Error_new(k, d) : k \in {NoDevice, InvalidInput} \cup {Io(x) : x \in IoErrorKind},
                       d \in Descriptions}
IoErrors ==
    {io_Error_new(k, d) : k \in IoErrorKind, d \in Descriptions}
      \cup {io_Error_os(c) : c \in {2, 13}}
      \cup {io_Error_simple(k) : k \in IoErrorKind}

(***************************************************************************)
(* PortSettings: lib.rs 683-754                                            *)
(***************************************************************************)
PortSettings ==
    [baud_rate : BaudRate, char_size : CharSize, parity : Parity,
     stop_bits : StopBits, flow_control : FlowControl]

\* mutant: another baud rate in the default
PortSettings_default_19200 ==
    [baud_rate |-> Baud("Baud19200"), char_size |-> "Bits8", parity |-> "ParityNone",
     stop_bits |-> "Stop1", flow_control |-> "FlowNone"]

PortSettings_default ==
    [baud_rate |-> Baud("Baud9600"), char_size |-> "Bits8", parity |-> "ParityNone",
     stop_bits |-> "Stop1", flow_control |-> "FlowNone"]

\* mutant: a rate outside the standard ones is reported as unknown
PortSettings_baud_rate_standard_only(self) ==
    IF self.baud_rate.tag = "BaudOther" THEN None ELSE Some(self.baud_rate)

PortSettings_baud_rate(self) == Some(self.baud_rate)
PortSettings_char_size(self) == Some(self.char_size)
PortSettings_parity(self) == Some(self.parity)
PortSettings_stop_bits(self) == Some(self.stop_bits)
PortSettings_flow_control(self) == Some(self.flow_control)

\* mutant: a rate outside the standard ones is not stored
PortSettings_set_baud_rate_standard_only(self, baud_rate) ==
    [self |-> IF baud_rate.tag = "BaudOther" THEN self
              ELSE [self EXCEPT !.baud_rate = baud_rate],
     ret |-> Ok]

\* mutant: a rate outside the standard ones is refused
PortSettings_set_baud_rate_rejecting_other(self, baud_rate) ==
    IF baud_rate.tag = "BaudOther"
    THEN [self |-> self, ret |-> Err(Error_new(InvalidInput, "set_baud_rate"))]
    ELSE [self |-> [self EXCEPT !.baud_rate = baud_rate], ret |-> Ok]

\* each setter yields the record after the call; set_baud_rate also yields Ok(())
PortSettings_set_baud_rate(self, baud_rate) ==
    [self |-> [self EXCEPT !.baud_rate = baud_rate], ret |-> Ok]

\* mutant: setting the character size to 8 bits also drops the parity bit
PortSettings_set_char_size_clearing_parity(self, char_size) ==
    IF char_size = "Bits8"
    THEN [self EXCEPT !.char_size = char_size, !.parity = "ParityNone"]
    ELSE [self EXCEPT !.char_size = char_size]

PortSettings_set_char_size(self, char_size) == [self EXCEPT !.char_size = char_size]
PortSettings_set_parity(self, parity) == [self EXCEPT !.parity = parity]
PortSettings_set_stop_bits(self, stop_bits) == [self EXCEPT !.stop_bits = stop_bits]
PortSettings_set_flow_control(self, flow_control) ==
    [self EXCEPT !.flow_control = flow_control]


(***************************************************************************)
(* State                                                                   *)
(***************************************************************************)
VARIABLES
    hw,         \* the backend's committed settings (shared by all port instances)
    pc,         \* per port: "Idle", "Reading", "Mutating", "Committing"
    op,         \* per port: the call in progress (or the last one) and its argument
    dev,        \* per port: Option of the local device_settings object
    ret,        \* per port: Option of the value the last call returned
    log,        \* per port: device / settings operations invoked by the current call
    hwAtCall,   \* per port: hw when the current call began
    live,       \* per port: Option of the object read_settings returned to this call
    written,    \* per port: Option of the object this call passed to write_settings
    lastOk,     \* five fields of the most recent successfully committed configure
    ps,         \* a PortSettings value held by a caller
    psOld,      \* ps before the last PortSettings operation
    psCall,     \* the last PortSettings operation, its argument and result
    conv,       \* an error value being passed around: its form and the value
    convPrev,   \* conv before the last conversion
    convOrigin, \* the value the conversions started from
    convHops,   \* conversions applied since convOrigin
    sig,        \* the device's timeout and the RTS / DTR levels it drives
    sigCall     \* the last timeout / control-signal call made through the facade

portVars == <<hw, pc, op, dev, ret, log, hwAtCall, live, written, lastOk>>
psVars == <<ps, psOld, psCall>>
errVars == <<conv, convPrev, convOrigin, convHops>>
sigVars == <<sig, sigCall>>
callVars == <<pc, op, dev, ret, log, hwAtCall, live, written, lastOk>>
vars ==
    <<hw, pc, op, dev, ret, log, hwAtCall, live, written, lastOk, ps, psOld, psCall,
      conv, convPrev, convOrigin, convHops, sig, sigCall>>

Ports == {1, 2}
FieldNames == {"baud_rate", "char_size", "parity", "stop_bits", "flow_control"}

(***************************************************************************)
(* Backend settings object (SerialDevice::Settings: SerialPortSettings).   *)
(* Every field is an Option: None when the live state is not in the        *)
(* vocabulary.  native stands for backend state outside the five fields.   *)
(***************************************************************************)
NativeSettings(b, c, p, s, f, n) ==
    [baud_rate |-> b, char_size |-> c, parity |-> p, stop_bits |-> s,
     flow_control |-> f, native |-> n]

Settings_baud_rate(self) == self.baud_rate
Settings_char_size(self) == self.char_size
Settings_parity(self) == self.parity
Settings_stop_bits(self) == self.stop_bits
Settings_flow_control(self) == self.flow_control

\* outcome is the backend's verdict on the rate: Ok, or Err(e) when it rejects
Settings_set_baud_rate(self, baud_rate, outcome) ==
    IF outcome.ok
    THEN [self |-> [self EXCEPT !.baud_rate = Some(baud_rate)], ret |-> Ok]
    ELSE [self |-> self, ret |-> outcome]
Settings_set_char_size(self, char_size) == [self EXCEPT !.char_size = Some(char_size)]
Settings_set_parity(self, parity) == [self EXCEPT !.parity = Some(parity)]
Settings_set_stop_bits(self, stop_bits) == [self EXCEPT !.stop_bits = Some(stop_bits)]
Settings_set_flow_control(self, flow_control) ==
    [self EXCEPT !.flow_control = Some(flow_control)]

\* the five vocabulary fields of a settings object, and of a PortSettings
Fields(obj) == [f \in FieldNames |-> obj[f]]
SomeFields(settings) == [f \in FieldNames |-> Some(settings[f])]

(***************************************************************************)
(* Backend device (SerialDevice): read_settings / write_settings           *)
(***************************************************************************)
ReadErrors ==
    {Error_new(NoDevice, "read_settings"), Error_new(Io("Other"), "read_settings")}
BaudErrors == {Error_new(InvalidInput, "set_baud_rate")}
WriteErrors ==
    {Error_new(NoDevice, "write_settings"), Error_new(InvalidInput, "write_settings")}

ReadOutcomes == {Ok} \cup {Err(e) : e \in ReadErrors}
BaudOutcomes == {Ok} \cup {Err(e) : e \in BaudErrors}
WriteOutcomes == {Ok} \cup {Err(e) : e \in WriteErrors}

\* read_settings: a fresh object holding the committed state
Device_read_settings(committed, outcome) ==
    IF outcome.ok THEN [ret |-> Ok, settings |-> Some(committed)]
    ELSE [ret |-> outcome, settings |-> None]

\* write_settings: the whole object is committed, or nothing is
Device_write_settings(committed, settings, outcome) ==
    IF outcome.ok THEN [ret |-> Ok, committed |-> settings]
    ELSE [ret |-> outcome, committed |-> committed]

(***************************************************************************)
(* Backend device: timeout and control signals (SerialDevice, lib.rs        *)
(* 337-419).  A device is its committed settings, its timeout and the      *)
(* levels of the two lines it drives; the four lines it reads are inputs.  *)
(***************************************************************************)
Device(committed, s) ==
    [committed |-> committed, timeout |-> s.timeout, rts |-> s.rts, dtr |-> s.dtr]
Signals(device) == [timeout |-> device.timeout, rts |-> device.rts, dtr |-> device.dtr]

\* a returned value: a tuple holding nothing, a level or a timeout
Value(v) == [ok |-> TRUE, error |-> Ok.error, value |-> v]
Failure(e) == [ok |-> FALSE, error |-> e, value |-> <<>>]
SigEntry(call, arg, r) == [call |-> call, arg |-> arg, ret |-> r]

SignalErrors == {Error_new(NoDevice, "signal"), Error_new(Io("Other"), "signal")}
SetOutcomes == {Value(<<>>)} \cup {Failure(e) : e \in SignalErrors}
LevelOutcomes == {Value(<<level>>) : level \in BOOLEAN} \cup {Failure(e) : e \in SignalErrors}

Device_timeout(device) ==
    [device |-> device, ret |-> Value(<<device.timeout>>),
     calls |-> <<SigEntry("timeout", <<>>, Value(<<device.timeout>>))>>]
Device_set_timeout(device, timeout, outcome) ==
    [device |-> IF outcome.ok THEN [device EXCEPT !.timeout = timeout] ELSE device,
     ret |-> outcome, calls |-> <<SigEntry("set_timeout", <<timeout>>, outcome)>>]
Device_set_rts(device, level, outcome) ==
    [device |-> IF outcome.ok THEN [device EXCEPT !.rts = level] ELSE device,
     ret |-> outcome, calls |-> <<SigEntry("set_rts", <<level>>, outcome)>>]
Device_set_dtr(device, level, outcome) ==
    [device |-> IF outcome.ok THEN [device EXCEPT !.dtr = level] ELSE device,
     ret |-> outcome, calls |-> <<SigEntry("set_dtr", <<level>>, outcome)>>]
Device_read_cts(device, outcome) ==
    [device |-> device, ret |-> outcome, calls |-> <<SigEntry("read_cts", <<>>, outcome)>>]
Device_read_dsr(device, outcome) ==
    [device |-> device, ret |-> outcome, calls |-> <<SigEntry("read_dsr", <<>>, outcome)>>]
Device_read_ri(device, outcome) ==
    [device |-> device, ret |-> outcome, calls |-> <<SigEntry("read_ri", <<>>, outcome)>>]
Device_read_cd(device, outcome) ==
    [device |-> device, ret |-> outcome, calls |-> <<SigEntry("read_cd", <<>>, outcome)>>]

InitialHardware ==
    {NativeSettings(None, None, None, None, None, 0),
     NativeSettings(Some(Baud("Baud19200")), Some("Bits8"), Some("ParityNone"),
                    Some("Stop1"), Some("FlowNone"), 1)}

(***************************************************************************)
(* Caller-supplied setup closures for reconfigure (lib.rs 449-487).        *)
(* A closure sets a subset of the fields and then succeeds or fails; the   *)
(* documented toggle_stop_bits closure reads the field before setting it.  *)
(***************************************************************************)
MutatorValues ==
    [baud_rate |-> Baud("Baud38400"), char_size |-> "Bits5", parity |-> "ParityOdd",
     stop_bits |-> "Stop2", flow_control |-> "FlowSoftware"]
SetupError == Error_new(Io("TimedOut"), "setup")

SetOnly(S) ==
    [name |-> "set",
     sets |-> [f \in FieldNames |-> IF f \in S THEN Some(MutatorValues[f]) ELSE None],
     fail |-> None]
SetThenFail(S) == [SetOnly(S) EXCEPT !.fail = Some(SetupError)]
ToggleStopBits == [SetOnly({}) EXCEPT !.name = "toggle_stop_bits"]

\* lib.rs 476-484
toggle_stop_bits(settings) ==
    LET stop_bits == IF Settings_stop_bits(settings) = Some("Stop1") THEN "Stop2" ELSE "Stop1"
    IN  [self |-> Settings_set_stop_bits(settings, stop_bits), ret |-> Ok]

\* the closure applied to the live object: the baud rate first (an error of the
\* fallible setter is returned at once), then the total setters, then its result
setup_call(setup, settings, outcome) ==
    IF setup.name = "toggle_stop_bits" THEN toggle_stop_bits(settings)
    ELSE
      LET b  == IF IsSome(setup.sets.baud_rate)
                THEN Settings_set_baud_rate(settings, Unwrap(setup.sets.baud_rate), outcome)
                ELSE [self |-> settings, ret |-> Ok]
          s1 == IF IsSome(setup.sets.char_size)
                THEN Settings_set_char_size(b.self, Unwrap(setup.sets.char_size)) ELSE b.self
          s2 == IF IsSome(setup.sets.parity)
                THEN Settings_set_parity(s1, Unwrap(setup.sets.parity)) ELSE s1
          s3 == IF IsSome(setup.sets.stop_bits)
                THEN Settings_set_stop_bits(s2, Unwrap(setup.sets.stop_bits)) ELSE s2
          s4 == IF IsSome(setup.sets.flow_control)
                THEN Settings_set_flow_control(s3, Unwrap(setup.sets.flow_control)) ELSE s3
      IN  IF ~b.ret.ok THEN b
          ELSE [self |-> s4, ret |-> IF IsSome(setup.fail) THEN Err(Unwrap(setup.fail)) ELSE Ok]

(***************************************************************************)
(* Port facade: impl<T> SerialPort for T where T: SerialDevice             *)
(* (lib.rs 568-618).  Each operator is one statement of configure or       *)
(* reconfigure; ret.ok = FALSE is the early return of try!.                *)
(***************************************************************************)
\* lib.rs 569-575, 595-617: timeout and control signals
SerialPort_timeout(device) == Device_timeout(device)
SerialPort_set_timeout(device, timeout, outcome) ==
    Device_set_timeout(device, timeout, outcome)

\* mutant: set_rts drives the DTR line
SerialPort_set_rts_as_dtr(device, level, outcome) == Device_set_dtr(device, level, outcome)

SerialPort_set_rts(device, level, outcome) == Device_set_rts(device, level, outcome)
SerialPort_set_dtr(device, level, outcome) == Device_set_dtr(device, level, outcome)
SerialPort_read_cts(device, outcome) == Device_read_cts(device, outcome)
SerialPort_read_dsr(device, outcome) == Device_read_dsr(device, outcome)
SerialPort_read_ri(device, outcome) == Device_read_ri(device, outcome)
SerialPort_read_cd(device, outcome) == Device_read_cd(device, outcome)

\* log entries: the device or settings operation invoked and what it returned
Entry(call, r) == [call |-> call, ret |-> r]

\* mutant: a failed read is not propagated; the call goes on with an empty object
configure_read_unchecked(committed, outcome) ==
    LET d == Device_read_settings(committed, outcome)
    IN  [ret |-> Ok,
         settings |-> IF d.ret.ok THEN d.settings
                      ELSE Some(NativeSettings(None, None, None, None, None, 0)),
         log |-> <<Entry("read_settings", d.ret)>>]

\* lib.rs 578: let mut device_settings = try!(T::read_settings(self));
configure_read(committed, outcome) ==
    LET d == Device_read_settings(committed, outcome)
    IN  [ret |-> d.ret, settings |-> d.settings, log |-> <<Entry("read_settings", d.ret)>>]

ConfigureLog(r) ==
    <<Entry("set_baud_rate", r), Entry("set_char_size", Ok), Entry("set_parity", Ok),
      Entry("set_stop_bits", Ok), Entry("set_flow_control", Ok)>>

\* mutant: the result of set_baud_rate is dropped instead of passed to try!
configure_overlay_unchecked(device_settings, settings, outcome) ==
    LET b  == Settings_set_baud_rate(device_settings, settings.baud_rate, outcome)
        s1 == Settings_set_char_size(b.self, settings.char_size)
        s2 == Settings_set_parity(s1, settings.parity)
        s3 == Settings_set_stop_bits(s2, settings.stop_bits)
        s4 == Settings_set_flow_control(s3, settings.flow_control)
    IN  [self |-> s4, ret |-> Ok, log |-> ConfigureLog(b.ret)]

\* mutant: the parity of the target is not applied
configure_overlay_no_parity(device_settings, settings, outcome) ==
    LET b  == Settings_set_baud_rate(device_settings, settings.baud_rate, outcome)
        s1 == Settings_set_char_size(b.self, settings.char_size)
        s3 == Settings_set_stop_bits(s1, settings.stop_bits)
        s4 == Settings_set_flow_control(s3, settings.flow_control)
    IN  IF ~b.ret.ok
        THEN [self |-> b.self, ret |-> b.ret, log |-> <<Entry("set_baud_rate", b.ret)>>]
        ELSE [self |-> s4, ret |-> Ok, log |-> ConfigureLog(b.ret)]

\* mutant: the flow control of the target is not applied
configure_overlay_no_flow_control(device_settings, settings, outcome) ==
    LET b  == Settings_set_baud_rate(device_settings, settings.baud_rate, outcome)
        s1 == Settings_set_char_size(b.self, settings.char_size)
        s2 == Settings_set_parity(s1, settings.parity)
        s3 == Settings_set_stop_bits(s2, settings.stop_bits)
    IN  IF ~b.ret.ok
        THEN [self |-> b.self, ret |-> b.ret, log |-> <<Entry("set_baud_rate", b.ret)>>]
        ELSE [self |-> s3, ret |-> Ok, log |-> ConfigureLog(b.ret)]

\* mutant: the fallible baud-rate setter is called after the four total setters
configure_overlay_baud_last(device_settings, settings, outcome) ==
    LET s1 == Settings_set_char_size(device_settings, settings.char_size)
        s2 == Settings_set_parity(s1, settings.parity)
        s3 == Settings_set_stop_bits(s2, settings.stop_bits)
        s4 == Settings_set_flow_control(s3, settings.flow_control)
        b  == Settings_set_baud_rate(s4, settings.baud_rate, outcome)
    IN  [self |-> b.self, ret |-> b.ret,
         log |-> <<Entry("set_char_size", Ok), Entry("set_parity", Ok),
                   Entry("set_stop_bits", Ok), Entry("set_flow_control", Ok),
                   Entry("set_baud_rate", b.ret)>>]

\* mutant: the character size of the target is not applied
configure_overlay_no_char_size(device_settings, settings, outcome) ==
    LET b  == Settings_set_baud_rate(device_settings, settings.baud_rate, outcome)
        s2 == Settings_set_parity(b.self, settings.parity)
        s3 == Settings_set_stop_bits(s2, settings.stop_bits)
        s4 == Settings_set_flow_control(s3, settings.flow_control)
    IN  IF ~b.ret.ok
        THEN [self |-> b.self, ret |-> b.ret, log |-> <<Entry("set_baud_rate", b.ret)>>]
        ELSE [self |-> s4, ret |-> Ok, log |-> ConfigureLog(b.ret)]

\* mutant: the target is applied to a newly built object, not to the one read
configure_overlay_fresh_object(device_settings, settings, outcome) ==
    LET fresh == NativeSettings(None, None, None, None, None, 0)
        b  == Settings_set_baud_rate(fresh, settings.baud_rate, outcome)
        s1 == Settings_set_char_size(b.self, settings.char_size)
        s2 == Settings_set_parity(s1, settings.parity)
        s3 == Settings_set_stop_bits(s2, settings.stop_bits)
        s4 == Settings_set_flow_control(s3, settings.flow_control)
    IN  IF ~b.ret.ok
        THEN [self |-> b.self, ret |-> b.ret, log |-> <<Entry("set_baud_rate", b.ret)>>]
        ELSE [self |-> s4, ret |-> Ok, log |-> ConfigureLog(b.ret)]

\* lib.rs 580-584
configure_overlay(device_settings, settings, outcome) ==
    LET b  == Settings_set_baud_rate(device_settings, settings.baud_rate, outcome)
        s1 == Settings_set_char_size(b.self, settings.char_size)
        s2 == Settings_set_parity(s1, settings.parity)
        s3 == Settings_set_stop_bits(s2, settings.stop_bits)
        s4 == Settings_set_flow_control(s3, settings.flow_control)
    IN  IF ~b.ret.ok
        THEN [self |-> b.self, ret |-> b.ret, log |-> <<Entry("set_baud_rate", b.ret)>>]
        ELSE [self |-> s4, ret |-> Ok, log |-> ConfigureLog(b.ret)]

\* mutant: a failed write is attempted once more
configure_write_retry(committed, device_settings, outcome) ==
    LET d == Device_write_settings(committed, device_settings, outcome)
        e == Device_write_settings(d.committed, device_settings, Ok)
    IN  IF d.ret.ok
        THEN [ret |-> d.ret, committed |-> d.committed,
              log |-> <<Entry("write_settings", d.ret)>>]
        ELSE [ret |-> e.ret, committed |-> e.committed,
              log |-> <<Entry("write_settings", d.ret), Entry("write_settings", e.ret)>>]

\* lib.rs 586: T::write_settings(self, &device_settings)
configure_write(committed, device_settings, outcome) ==
    LET d == Device_write_settings(committed, device_settings, outcome)
    IN  [ret |-> d.ret, committed |-> d.committed, log |-> <<Entry("write_settings", d.ret)>>]

\* mutant: the device is read, and read again for the object handed to the closure
reconfigure_read_twice(committed, outcome) ==
    LET d == Device_read_settings(committed, outcome)
        e == Device_read_settings(committed, outcome)
    IN  [ret |-> e.ret, settings |-> e.settings,
         log |-> <<Entry("read_settings", d.ret), Entry("read_settings", e.ret)>>]

\* lib.rs 590
reconfigure_read(committed, outcome) ==
    LET d == Device_read_settings(committed, outcome)
    IN  [ret |-> d.ret, settings |-> d.settings, log |-> <<Entry("read_settings", d.ret)>>]

\* mutant: the closure's result is dropped instead of passed to try!
reconfigure_setup_unchecked(device_settings, setup, outcome) ==
    LET r == setup_call(setup, device_settings, outcome)
    IN  [self |-> r.self, ret |-> Ok, log |-> <<Entry("setup", r.ret)>>]

\* mutant: the closure is given a synthesized default object, not the live read
reconfigure_setup_from_default(device_settings, setup, outcome) ==
    LET fresh == NativeSettings(Some(Baud("Baud9600")), Some("Bits8"), Some("ParityNone"),
                                Some("Stop1"), Some("FlowNone"), device_settings.native)
        r == setup_call(setup, fresh, outcome)
    IN  [self |-> r.self, ret |-> r.ret, log |-> <<Entry("setup", r.ret)>>]

\* lib.rs 591: try!(setup(&mut device_settings));
reconfigure_setup(device_settings, setup, outcome) ==
    LET r == setup_call(setup, device_settings, outcome)
    IN  [self |-> r.self, ret |-> r.ret, log |-> <<Entry("setup", r.ret)>>]

\* lib.rs 592
reconfigure_write(committed, device_settings, outcome) ==
    LET d == Device_write_settings(committed, device_settings, outcome)
    IN  [ret |-> d.ret, committed |-> d.committed, log |-> <<Entry("write_settings", d.ret)>>]

(***************************************************************************)
(* Calls and their steps: Idle -> Reading -> Mutating -> Committing -> Idle *)
(***************************************************************************)
NoCall == [kind |-> "none", settings |-> PortSettings_default, setup |-> SetOnly({})]

\* the call returns r; its local device_settings is dropped
Return(p, r) ==
    /\ pc' = [pc EXCEPT ![p] = "Idle"]
    /\ ret' = [ret EXCEPT ![p] = Some(r)]
    /\ dev' = [dev EXCEPT ![p] = None]

Begin(p, call) ==
    /\ pc[p] = "Idle"
    /\ pc' = [pc EXCEPT ![p] = "Reading"]
    /\ op' = [op EXCEPT ![p] = call]
    /\ ret' = [ret EXCEPT ![p] = None]
    /\ dev' = [dev EXCEPT ![p] = None]
    /\ log' = [log EXCEPT ![p] = <<>>]
    /\ hwAtCall' = [hwAtCall EXCEPT ![p] = hw]
    /\ live' = [live EXCEPT ![p] = None]
    /\ written' = [written EXCEPT ![p] = None]
    /\ UNCHANGED <<hw, lastOk, psVars, errVars, sigVars>>

\* port.configure(&settings)
CallConfigure(p, settings) ==
    Begin(p, [kind |-> "configure", settings |-> settings, setup |-> SetOnly({})])

\* port.reconfigure(&setup)
CallReconfigure(p, setup) ==
    Begin(p, [kind |-> "reconfigure", settings |-> PortSettings_default, setup |-> setup])

\* r is the result of read_settings
ReadStep(p, r) ==
    /\ log' = [log EXCEPT ![p] = @ \o r.log]
    /\ live' = [live EXCEPT ![p] = r.settings]
    /\ IF r.ret.ok
       THEN /\ pc' = [pc EXCEPT ![p] = "Mutating"]
            /\ dev' = [dev EXCEPT ![p] = r.settings]
            /\ UNCHANGED ret
       ELSE Return(p, r.ret)
    /\ UNCHANGED <<hw, op, hwAtCall, written, lastOk, psVars, errVars, sigVars>>

\* mutant: the setters act on the hardware as they are called
MutateStepWriteThrough(p, r) ==
    /\ log' = [log EXCEPT ![p] = @ \o r.log]
    /\ hw' = r.self
    /\ IF r.ret.ok
       THEN /\ pc' = [pc EXCEPT ![p] = "Committing"]
            /\ dev' = [dev EXCEPT ![p] = Some(r.self)]
            /\ UNCHANGED ret
       ELSE Return(p, r.ret)
    /\ UNCHANGED <<op, hwAtCall, live, written, lastOk, psVars, errVars, sigVars>>

\* mutant: a failed mutation starts the call over instead of returning
MutateStepStartingOver(p, r) ==
    /\ IF r.ret.ok
       THEN /\ pc' = [pc EXCEPT ![p] = "Committing"]
            /\ dev' = [dev EXCEPT ![p] = Some(r.self)]
            /\ log' = [log EXCEPT ![p] = @ \o r.log]
            /\ UNCHANGED <<ret, live>>
       ELSE /\ pc' = [pc EXCEPT ![p] = "Reading"]
            /\ dev' = [dev EXCEPT ![p] = None]
            /\ log' = [log EXCEPT ![p] = <<>>]
            /\ live' = [live EXCEPT ![p] = None]
            /\ UNCHANGED ret
    /\ UNCHANGED <<hw, op, hwAtCall, written, lastOk, psVars, errVars, sigVars>>

\* r is the result of the in-memory mutation of device_settings
MutateStep(p, r) ==
    /\ log' = [log EXCEPT ![p] = @ \o r.log]
    /\ IF r.ret.ok
       THEN /\ pc' = [pc EXCEPT ![p] = "Committing"]
            /\ dev' = [dev EXCEPT ![p] = Some(r.self)]
            /\ UNCHANGED ret
       ELSE Return(p, r.ret)
    /\ UNCHANGED <<hw, op, hwAtCall, live, written, lastOk, psVars, errVars, sigVars>>

\* r is the result of write_settings, which is also the call's result
WriteStep(p, r) ==
    /\ log' = [log EXCEPT ![p] = @ \o r.log]
    /\ written' = [written EXCEPT ![p] = dev[p]]
    /\ hw' = r.committed
    /\ lastOk' = IF r.ret.ok /\ op[p].kind = "configure"
                 THEN SomeFields(op[p].settings) ELSE lastOk
    /\ Return(p, r.ret)
    /\ UNCHANGED <<op, hwAtCall, live, psVars, errVars, sigVars>>

ConfigureRead(p) ==
    /\ pc[p] = "Reading" /\ op[p].kind = "configure"
    /\ \E outcome \in ReadOutcomes : ReadStep(p, configure_read(hw, outcome))

ConfigureSetters(p) ==
    /\ pc[p] = "Mutating" /\ op[p].kind = "configure"
    /\ \E outcome \in BaudOutcomes :
          MutateStep(p, configure_overlay(Unwrap(dev[p]), op[p].settings, outcome))

ConfigureWrite(p) ==
    /\ pc[p] = "Committing" /\ op[p].kind = "configure"
    /\ \E outcome \in WriteOutcomes :
          WriteStep(p, configure_write(hw, Unwrap(dev[p]), outcome))

ReconfigureRead(p) ==
    /\ pc[p] = "Reading" /\ op[p].kind = "reconfigure"
    /\ \E outcome \in ReadOutcomes : ReadStep(p, reconfigure_read(hw, outcome))

ReconfigureSetup(p) ==
    /\ pc[p] = "Mutating" /\ op[p].kind = "reconfigure"
    /\ \E outcome \in BaudOutcomes :
          MutateStep(p, reconfigure_setup(Unwrap(dev[p]), op[p].setup, outcome))

\* mutant: the commit step reads the device again and applies the closure to that
ReconfigureWriteRereading(p) ==
    /\ pc[p] = "Committing" /\ op[p].kind = "reconfigure"
    /\ \E outcome \in WriteOutcomes :
          WriteStep(p, reconfigure_write(hw, reconfigure_setup(hw, op[p].setup, Ok).self,
                                         outcome))

ReconfigureWrite(p) ==
    /\ pc[p] = "Committing" /\ op[p].kind = "reconfigure"
    /\ \E outcome \in WriteOutcomes :
          WriteStep(p, reconfigure_write(hw, Unwrap(dev[p]), outcome))

(***************************************************************************)
(* Inputs                                                                  *)
(***************************************************************************)
TargetBauds == {Baud("Baud115200")} \cup {BaudOther(n) : n \in 1..MaxOtherRate}
Targets ==
    {t \in PortSettings :
        /\ t.baud_rate \in TargetBauds
        /\ <<t.char_size, t.parity, t.stop_bits, t.flow_control>> \in
              {<<"Bits7", "ParityEven", "Stop2", "FlowHardware">>}}
Mutators ==
    {SetOnly(S) : S \in SUBSET FieldNames}
      \cup {SetThenFail(S) : S \in {{}, {"char_size"}, {"baud_rate", "parity"}}}
      \cup {ToggleStopBits}

(***************************************************************************)
(* One port instance on its device                                         *)
(***************************************************************************)
PortInit ==
    /\ hw \in InitialHardware
    /\ pc = [p \in Ports |-> "Idle"]
    /\ op = [p \in Ports |-> NoCall]
    /\ dev = [p \in Ports |-> None]
    /\ ret = [p \in Ports |-> None]
    /\ log = [p \in Ports |-> <<>>]
    /\ hwAtCall = [p \in Ports |-> hw]
    /\ live = [p \in Ports |-> None]
    /\ written = [p \in Ports |-> None]
    /\ lastOk = Fields(hw)

PSIdle ==
    /\ ps = PortSettings_default
    /\ psOld = PortSettings_default
    /\ psCall = [op |-> "default", baud_rate |-> Baud("Baud9600"), value |-> "-", ret |-> Ok]

\* an error value in either form; the unused form holds a fixed filler
SerialForm(e) == [form |-> "serial", serial |-> e, io |-> io_Error_simple("Other")]
IoForm(e) == [form |-> "io", serial |-> Error_new(Io("Other"), ""), io |-> e]

ErrIdle ==
    /\ conv = SerialForm(Error_new(NoDevice, ""))
    /\ convPrev = conv
    /\ convOrigin = conv
    /\ convHops = 0

SigIdle ==
    /\ sig = [timeout |-> 0, rts |-> FALSE, dtr |-> FALSE]
    /\ sigCall = [op |-> "none", arg |-> <<>>, ret |-> Value(<<>>), calls |-> <<>>,
                  before |-> Device(hw, sig)]

Init == PortInit /\ PSIdle /\ ErrIdle /\ SigIdle

Next ==
    \/ \E settings \in Targets : CallConfigure(1, settings)
    \/ \E setup \in Mutators : CallReconfigure(1, setup)
    \/ ConfigureRead(1)
    \/ ConfigureSetters(1)
    \/ ConfigureWrite(1)
    \/ ReconfigureRead(1)
    \/ ReconfigureSetup(1)
    \/ ReconfigureWrite(1)

Spec == Init /\ [][Next]_vars

\* the steps of a call in progress; each is a backend or settings operation that
\* returns, so a call in progress is not suspended forever
Step(p) ==
    \/ ConfigureRead(p)
    \/ ConfigureSetters(p)
    \/ ConfigureWrite(p)
    \/ ReconfigureRead(p)
    \/ ReconfigureSetup(p)
    \/ ReconfigureWrite(p)

\* the calls made; the control flow of a call does not depend on the values set
LiveTargets == {t \in Targets : t.baud_rate \in {Baud("Baud115200"), BaudOther(1)}}
LiveMutators == {SetOnly({"baud_rate"}), SetThenFail({"char_size"}), ToggleStopBits}

NextLive ==
    \/ \E settings \in LiveTargets : CallConfigure(1, settings)
    \/ \E setup \in LiveMutators : CallReconfigure(1, setup)
    \/ Step(1)

SpecLive == Init /\ [][NextLive]_vars /\ WF_vars(Step(1))

(***************************************************************************)
(* Two port instances on one device                                        *)
(***************************************************************************)
TargetA ==
    [baud_rate |-> Baud("Baud115200"), char_size |-> "Bits7", parity |-> "ParityEven",
     stop_bits |-> "Stop2", flow_control |-> "FlowHardware"]
TargetB ==
    [baud_rate |-> BaudOther(1), char_size |-> "Bits6", parity |-> "ParityOdd",
     stop_bits |-> "Stop1", flow_control |-> "FlowSoftware"]
SharedTargets == {TargetA, TargetB}
SharedMutators == {SetOnly({"stop_bits"}), SetOnly({"parity"})}

\* two calls, one per port instance, with no synchronisation: their steps
\* interleave freely
FirstCall(p) == op[p].kind = "none"

NextConcurrent ==
    \E p \in Ports :
        \/ FirstCall(p) /\ \E settings \in SharedTargets : CallConfigure(p, settings)
        \/ FirstCall(p) /\ \E setup \in SharedMutators : CallReconfigure(p, setup)
        \/ ConfigureRead(p)
        \/ ConfigureSetters(p)
        \/ ConfigureWrite(p)
        \/ ReconfigureRead(p)
        \/ ReconfigureSetup(p)
        \/ ReconfigureWrite(p)

SpecConcurrent == Init /\ [][NextConcurrent]_vars

\* external serialisation: a call begins only when no call is in progress
AllIdle == \A q \in Ports : pc[q] = "Idle"

NextSerial ==
    \E p \in Ports :
        \/ AllIdle /\ \E settings \in SharedTargets : CallConfigure(p, settings)
        \/ ConfigureRead(p)
        \/ ConfigureSetters(p)
        \/ ConfigureWrite(p)

SpecSerial == Init /\ [][NextSerial]_vars

(***************************************************************************)
(* A caller manipulating a PortSettings value (lib.rs 701-754, 761-794)    *)
(***************************************************************************)
PSCall(name, baud_rate, value, r) ==
    [op |-> name, baud_rate |-> baud_rate, value |-> value, ret |-> r]

PSDefault ==
    /\ ps' = PortSettings_default
    /\ psOld' = ps
    /\ psCall' = PSCall("default", Baud("Baud9600"), "-", Ok)
    /\ UNCHANGED <<portVars, errVars, sigVars>>

PSSetBaudRate(baud_rate) ==
    LET r == PortSettings_set_baud_rate(ps, baud_rate)
    IN  /\ ps' = r.self
        /\ psOld' = ps
        /\ psCall' = PSCall("set_baud_rate", baud_rate, "-", r.ret)
        /\ UNCHANGED <<portVars, errVars, sigVars>>

PSSetCharSize(char_size) ==
    /\ ps' = PortSettings_set_char_size(ps, char_size)
    /\ psOld' = ps
    /\ psCall' = PSCall("set_char_size", Baud("Baud9600"), char_size, Ok)
    /\ UNCHANGED <<portVars, errVars, sigVars>>

PSSetParity(parity) ==
    /\ ps' = PortSettings_set_parity(ps, parity)
    /\ psOld' = ps
    /\ psCall' = PSCall("set_parity", Baud("Baud9600"), parity, Ok)
    /\ UNCHANGED <<portVars, errVars, sigVars>>

PSSetStopBits(stop_bits) ==
    /\ ps' = PortSettings_set_stop_bits(ps, stop_bits)
    /\ psOld' = ps
    /\ psCall' = PSCall("set_stop_bits", Baud("Baud9600"), stop_bits, Ok)
    /\ UNCHANGED <<portVars, errVars, sigVars>>

PSSetFlowControl(flow_control) ==
    /\ ps' = PortSettings_set_flow_control(ps, flow_control)
    /\ psOld' = ps
    /\ psCall' = PSCall("set_flow_control", Baud("Baud9600"), flow_control, Ok)
    /\ UNCHANGED <<portVars, errVars, sigVars>>

NextPS ==
    \/ PSDefault
    \/ \E baud_rate \in BaudRate : PSSetBaudRate(baud_rate)
    \/ \E char_size \in CharSize : PSSetCharSize(char_size)
    \/ \E parity \in Parity : PSSetParity(parity)
    \/ \E stop_bits \in StopBits : PSSetStopBits(stop_bits)
    \/ \E flow_control \in FlowControl : PSSetFlowControl(flow_control)

SpecPS == Init /\ [][NextPS]_vars

(***************************************************************************)
(* A caller passing an error between the two representations               *)
(* (lib.rs 93-109)                                                         *)
(***************************************************************************)
Fresh(value) ==
    /\ conv' = value
    /\ convPrev' = value
    /\ convOrigin' = value
    /\ convHops' = 0
    /\ UNCHANGED <<portVars, psVars, sigVars>>

\* Error::new(kind, description)
NewError(e) == Fresh(SerialForm(e))
\* an I/O error produced by the host
NewIoError(e) == Fresh(IoForm(e))

\* let io_error: io::Error = From::from(error)
ConvertToIo ==
    /\ conv.form = "serial" /\ convHops < MaxHops
    /\ conv' = IoForm(io_Error_from(conv.serial))
    /\ convPrev' = conv
    /\ convHops' = convHops + 1
    /\ UNCHANGED <<convOrigin, portVars, psVars, sigVars>>

\* let error: Error = From::from(io_error)
ConvertToSerial ==
    /\ conv.form = "io" /\ convHops < MaxHops
    /\ conv' = SerialForm(Error_from_io(conv.io))
    /\ convPrev' = conv
    /\ convHops' = convHops + 1
    /\ UNCHANGED <<convOrigin, portVars, psVars, sigVars>>

NextErr ==
    \/ \E e \in SerialErrors : NewError(e)
    \/ \E e \in IoErrors : NewIoError(e)
    \/ ConvertToIo
    \/ ConvertToSerial

SpecErr == Init /\ [][NextErr]_vars

(***************************************************************************)
(* A caller using the timeout and the control signals of a port            *)
(* (lib.rs 569-575, 595-617)                                               *)
(***************************************************************************)
\* r is what the facade operation returned, the device after it and the device
\* operations it invoked
SigStep(name, arg, r) ==
    /\ hw' = r.device.committed
    /\ sig' = Signals(r.device)
    /\ sigCall' = [op |-> name, arg |-> arg, ret |-> r.ret, calls |-> r.calls,
                   before |-> Device(hw, sig)]
    /\ UNCHANGED <<callVars, psVars, errVars>>

Timeout == SigStep("timeout", <<>>, SerialPort_timeout(Device(hw, sig)))
SetTimeout(timeout) ==
    \E outcome \in SetOutcomes :
        SigStep("set_timeout", <<timeout>>,
                SerialPort_set_timeout(Device(hw, sig), timeout, outcome))
SetRts(level) ==
    \E outcome \in SetOutcomes :
        SigStep("set_rts", <<level>>, SerialPort_set_rts(Device(hw, sig), level, outcome))
SetDtr(level) ==
    \E outcome \in SetOutcomes :
        SigStep("set_dtr", <<level>>, SerialPort_set_dtr(Device(hw, sig), level, outcome))
ReadCts ==
    \E outcome \in LevelOutcomes :
        SigStep("read_cts", <<>>, SerialPort_read_cts(Device(hw, sig), outcome))
ReadDsr ==
    \E outcome \in LevelOutcomes :
        SigStep("read_dsr", <<>>, SerialPort_read_dsr(Device(hw, sig), outcome))
ReadRi ==
    \E outcome \in LevelOutcomes :
        SigStep("read_ri", <<>>, SerialPort_read_ri(Device(hw, sig), outcome))
ReadCd ==
    \E outcome \in LevelOutcomes :
        SigStep("read_cd", <<>>, SerialPort_read_cd(Device(hw, sig), outcome))

NextSig ==
    \/ Timeout
    \/ \E timeout \in 0..MaxTimeout : SetTimeout(timeout)
    \/ \E level \in BOOLEAN : SetRts(level)
    \/ \E level \in BOOLEAN : SetDtr(level)
    \/ ReadCts
    \/ ReadDsr
    \/ ReadRi
    \/ ReadCd

SpecSig == Init /\ [][NextSig]_vars

(***************************************************************************)
(* Properties                                                              *)
(***************************************************************************)
Calls(p) == {log[p][i].call : i \in DOMAIN log[p]}
\* the operations named call that returned an error to the current call of p
Failures(p, call) ==
    {log[p][i].ret : i \in {j \in DOMAIN log[p] : log[p][j].call = call /\ ~log[p][j].ret.ok}}
NoWrite(p) == "write_settings" \notin Calls(p) /\ written[p] = None

\* C1: when the settings object rejects the target's baud rate, configure returns
\* that very error, write_settings is not invoked and the committed settings are
\* what they were when the call began.
C1_ConfigureBaudRejected ==
    \A p \in Ports : \A e \in Failures(p, "set_baud_rate") :
        op[p].kind = "configure" =>
            /\ pc[p] = "Idle"
            /\ ret[p] = Some(e)
            /\ e.error.kind = InvalidInput => Unwrap(ret[p]).error.kind = InvalidInput
            /\ NoWrite(p)
            /\ hw = hwAtCall[p]

C1_Witness ==
    \E p \in Ports :
        /\ op[p].kind = "configure"
        /\ Failures(p, "set_baud_rate") # {}
        /\ hw \notin InitialHardware
        /\ Fields(hw) # SomeFields(op[p].settings)

\* C2: when the setup closure returns an error, whatever it modified before,
\* reconfigure returns exactly that error, write_settings is not invoked and the
\* committed settings are unchanged.
C2_ReconfigureSetupFailed ==
    \A p \in Ports : \A e \in Failures(p, "setup") :
        /\ op[p].kind = "reconfigure"
        /\ pc[p] = "Idle"
        /\ ret[p] = Some(e)
        /\ (IsSome(op[p].setup.fail) /\ ~IsSome(op[p].setup.sets.baud_rate))
              => ret[p] = Some(Err(Unwrap(op[p].setup.fail)))
        /\ NoWrite(p)
        /\ hw = hwAtCall[p]

C2_Witness ==
    \E p \in Ports :
        /\ op[p].setup = SetThenFail({"char_size"})
        /\ Failures(p, "setup") = {Err(SetupError)}
        /\ IsSome(live[p])
        /\ Unwrap(live[p]).char_size # Some(MutatorValues.char_size)
        /\ pc[p] = "Idle"

\* C3: the object reconfigure passes to write_settings holds the closure's value
\* in every field the closure set, and equals the live-read object everywhere else.
C3_ReconfigureKeepsUntouchedFields ==
    \A p \in Ports :
        (op[p].kind = "reconfigure" /\ IsSome(written[p])) =>
            LET w == Unwrap(written[p])
                l == Unwrap(live[p])
                m == op[p].setup
            IN  /\ IsSome(live[p])
                /\ w.native = l.native
                /\ m.name = "set" =>
                      \A f \in FieldNames :
                          w[f] = IF IsSome(m.sets[f]) THEN m.sets[f] ELSE l[f]
                /\ m.name = "toggle_stop_bits" =>
                      /\ \A f \in FieldNames \ {"stop_bits"} : w[f] = l[f]
                      /\ w.stop_bits =
                            IF l.stop_bits = Some("Stop1") THEN Some("Stop2") ELSE Some("Stop1")

C3_Witness ==
    \E p \in Ports :
        /\ op[p].setup = SetOnly({"stop_bits"})
        /\ IsSome(live[p]) /\ IsSome(written[p])
        /\ Unwrap(live[p]).baud_rate = Some(Baud("Baud19200"))
        /\ Unwrap(live[p]).stop_bits = Some("Stop1")
        /\ hw.baud_rate = Some(Baud("Baud19200"))
        /\ hw.stop_bits = Some("Stop2")
        /\ ret[p] = Some(Ok)

\* C4: configure passes to write_settings an object whose five fields are the
\* target's, whatever the live values were; after a successful configure a read
\* of the device reports Some(target field) for all five fields.
C4_ConfigureWritesTarget ==
    \A p \in Ports :
        op[p].kind = "configure" =>
            /\ IsSome(written[p]) => Fields(Unwrap(written[p])) = SomeFields(op[p].settings)
            /\ (pc[p] = "Idle" /\ ret[p] = Some(Ok)) =>
                  LET r == Device_read_settings(hw, Ok)
                      s == Unwrap(r.settings)
                      t == op[p].settings
                  IN  /\ IsSome(written[p])
                      /\ Settings_baud_rate(s) = Some(t.baud_rate)
                      /\ Settings_char_size(s) = Some(t.char_size)
                      /\ Settings_parity(s) = Some(t.parity)
                      /\ Settings_stop_bits(s) = Some(t.stop_bits)
                      /\ Settings_flow_control(s) = Some(t.flow_control)

C4_Witness ==
    \E p \in Ports :
        /\ op[p].kind = "configure"
        /\ op[p].settings.baud_rate = BaudOther(MaxOtherRate)
        /\ \A f \in FieldNames : hwAtCall[p][f] = None
        /\ pc[p] = "Idle" /\ ret[p] = Some(Ok)
        /\ hw # hwAtCall[p]

\* C5: a failed read_settings ends the call with the read error before any setter,
\* closure or write is invoked; a call that fails while reading or mutating is
\* back in Idle without a write and with the hardware untouched.
C5_ReadOrMutateFailure ==
    \A p \in Ports :
        /\ \A e \in Failures(p, "read_settings") :
              /\ pc[p] = "Idle"
              /\ ret[p] = Some(e)
              /\ Calls(p) = {"read_settings"} /\ Len(log[p]) = 1
              /\ live[p] = None /\ dev[p] = None
        /\ (Failures(p, "read_settings") \cup Failures(p, "set_baud_rate")
                \cup Failures(p, "setup")) # {} =>
              /\ pc[p] = "Idle"
              /\ NoWrite(p)
              /\ hw = hwAtCall[p]

C5_Witness ==
    \E p \in Ports :
        /\ op[p].kind = "reconfigure"
        /\ Failures(p, "read_settings") # {}
        /\ hw \notin InitialHardware

\* C6: the committed settings change only in a write_settings step, and then to
\* the object that step is given; no setter, closure or read changes them.
C6_HardwareChangesOnlyOnCommit ==
    [][hw' # hw =>
          \E p \in Ports :
              /\ pc[p] = "Committing" /\ pc'[p] = "Idle"
              /\ log'[p] = Append(log[p], Entry("write_settings", Ok))
              /\ hw' = Unwrap(dev[p])]_vars

C6_Witness ==
    \E p \in Ports :
        /\ IsSome(written[p]) /\ ret[p] = Some(Ok)
        /\ hw = Unwrap(written[p])
        /\ hw # hwAtCall[p]

Intent(p, f) ==
    IF op[p].kind = "configure" THEN Some(op[p].settings[f]) ELSE op[p].setup.sets[f]
\* the five fields after the call of p has been applied, alone, to the fields s
Applied(p, s) == [f \in FieldNames |-> IF IsSome(Intent(p, f)) THEN Intent(p, f) ELSE s[f]]
\* both calls succeeded and both worked on the same read of the device
BothCommittedFromSameRead(p, q) ==
    /\ p # q /\ AllIdle
    /\ ret[p] = Some(Ok) /\ ret[q] = Some(Ok)
    /\ IsSome(live[p]) /\ live[p] = live[q]

\* C8: without synchronisation the reads and writes of two calls interleave: when
\* both calls read before either writes, the committed fields are those one call
\* derived from that common read, so the other call's changes are lost; the final
\* state need not be the outcome of either serial order.
C8_InterleavedCallsLoseUpdates ==
    \A p, q \in Ports :
        BothCommittedFromSameRead(p, q) =>
            \/ Fields(hw) = Applied(p, Fields(Unwrap(live[p])))
            \/ Fields(hw) = Applied(q, Fields(Unwrap(live[q])))

C8_Witness ==
    \E p, q \in Ports :
        /\ BothCommittedFromSameRead(p, q)
        /\ hwAtCall[p] = Unwrap(live[p]) /\ hwAtCall[q] = Unwrap(live[q])
        /\ op[p].kind = "reconfigure" /\ op[q].kind = "reconfigure"
        /\ Fields(hw) # Applied(q, Applied(p, Fields(hwAtCall[p])))
        /\ Fields(hw) # Applied(p, Applied(q, Fields(hwAtCall[p])))

\* C9: on a PortSettings, a field's getter returns Some of the value its setter
\* was just given, for every value of the field's type and from any prior value.
C9_PortSettingsSetThenGet ==
    /\ (psCall.op = "set_baud_rate" /\ psCall.ret.ok)
          => PortSettings_baud_rate(ps) = Some(psCall.baud_rate)
    /\ psCall.op = "set_char_size" => PortSettings_char_size(ps) = Some(psCall.value)
    /\ psCall.op = "set_parity" => PortSettings_parity(ps) = Some(psCall.value)
    /\ psCall.op = "set_stop_bits" => PortSettings_stop_bits(ps) = Some(psCall.value)
    /\ psCall.op = "set_flow_control" => PortSettings_flow_control(ps) = Some(psCall.value)

C9_Witness ==
    /\ psCall.op = "set_baud_rate" /\ psCall.ret.ok
    /\ psCall.baud_rate = BaudOther(MaxOtherRate)
    /\ psOld.baud_rate = Baud("Baud115200")
    /\ psOld.parity = "ParityEven"

\* C10: PortSettings::default() reports 9600 baud, 8 bits, no parity, 1 stop bit
\* and no flow control, each as Some.
C10_DefaultSettings ==
    psCall.op = "default" =>
        /\ PortSettings_baud_rate(ps) = Some(Baud("Baud9600"))
        /\ PortSettings_char_size(ps) = Some("Bits8")
        /\ PortSettings_parity(ps) = Some("ParityNone")
        /\ PortSettings_stop_bits(ps) = Some("Stop1")
        /\ PortSettings_flow_control(ps) = Some("FlowNone")

C10_Witness ==
    /\ psCall.op = "default"
    /\ psOld.baud_rate = BaudOther(1)
    /\ psOld.flow_control = "FlowHardware"

\* C11: whatever setters were called on a PortSettings since the default, each of
\* the five getters returns Some of a value of its type, never None.
C11_PortSettingsAlwaysSome ==
    /\ IsSome(PortSettings_baud_rate(ps)) /\ Unwrap(PortSettings_baud_rate(ps)) \in BaudRate
    /\ IsSome(PortSettings_char_size(ps)) /\ Unwrap(PortSettings_char_size(ps)) \in CharSize
    /\ IsSome(PortSettings_parity(ps)) /\ Unwrap(PortSettings_parity(ps)) \in Parity
    /\ IsSome(PortSettings_stop_bits(ps)) /\ Unwrap(PortSettings_stop_bits(ps)) \in StopBits
    /\ IsSome(PortSettings_flow_control(ps))
    /\ Unwrap(PortSettings_flow_control(ps)) \in FlowControl

C11_Witness ==
    /\ psCall.op = "set_parity"
    /\ ps.baud_rate = BaudOther(1)
    /\ ps.char_size = "Bits5" /\ ps.stop_bits = "Stop2" /\ ps.flow_control = "FlowSoftware"
    /\ ps.parity = "ParityOdd" /\ psOld.parity = "ParityEven"

\* C12: converting a serial Error to an I/O error maps NoDevice to NotFound,
\* InvalidInput to InvalidInput and Io(k) to k, and the I/O error carries the
\* original description unchanged.
C12_ErrorToIoError ==
    (conv.form = "io" /\ convHops >= 1) =>
        LET e == convPrev.serial
            i == conv.io
        IN  /\ convPrev.form = "serial"
            /\ Error_kind(e) = NoDevice => io_Error_kind(i) = "NotFound"
            /\ Error_kind(e) = InvalidInput => io_Error_kind(i) = "InvalidInput"
            /\ \A k \in IoErrorKind : Error_kind(e) = Io(k) => io_Error_kind(i) = k
            /\ io_Error_display(i) = Error_description(e)

C12_Witness ==
    /\ conv.form = "io" /\ convHops = 1
    /\ Error_kind(convPrev.serial) = NoDevice
    /\ Error_description(convPrev.serial) = "device disconnected"
    /\ io_Error_kind(conv.io) = "NotFound"

\* C13: Error -> I/O error -> Error gives back kind Io(k) and the description for
\* an Error of kind Io(k); NoDevice and InvalidInput come back as Io(NotFound) and
\* Io(InvalidInput), with the description still the original one.
C13_ErrorRoundTrip ==
    (conv.form = "serial" /\ convOrigin.form = "serial" /\ convHops = 2) =>
        LET e == convOrigin.serial
            r == conv.serial
        IN  /\ Error_description(r) = Error_description(e)
            /\ \A k \in IoErrorKind : Error_kind(e) = Io(k) => r = e
            /\ Error_kind(e) = NoDevice => Error_kind(r) = Io("NotFound")
            /\ Error_kind(e) = InvalidInput => Error_kind(r) = Io("InvalidInput")

C13_Witness ==
    /\ conv.form = "serial" /\ convOrigin.form = "serial" /\ convHops = 2
    /\ convOrigin.serial = Error_new(InvalidInput, "unsupported baud rate")
    /\ conv.serial = Error_new(Io("InvalidInput"), "unsupported baud rate")

\* C18: converting an I/O error of kind k to a serial Error gives kind Io(k),
\* never NoDevice or InvalidInput, with the I/O error's Display text as description.
C18_IoErrorToError ==
    (conv.form = "serial" /\ convHops >= 1) =>
        LET i == convPrev.io
            e == conv.serial
        IN  /\ convPrev.form = "io"
            /\ Error_kind(e) = Io(io_Error_kind(i))
            /\ Error_kind(e) \notin {NoDevice, InvalidInput}
            /\ Error_description(e) = io_Error_display(i)
            /\ i.repr = "Custom" => Error_description(e) = i.message

C18_Witness ==
    /\ conv.form = "serial" /\ convHops = 1
    /\ convPrev.io = io_Error_os(2)
    /\ conv.serial = Error_new(Io("NotFound"), "No such file or directory (os error 2)")

\* C14: each of timeout, set_timeout, set_rts, set_dtr, read_cts, read_dsr,
\* read_ri and read_cd invokes the device operation of the same name once, with
\* the same argument, returns what it returned, and leaves the committed settings
\* as they were (no read_settings or write_settings is invoked).
C14_SignalsDelegate ==
    sigCall.op # "none" =>
        /\ Len(sigCall.calls) = 1
        /\ sigCall.calls[1].call = sigCall.op
        /\ sigCall.calls[1].arg = sigCall.arg
        /\ sigCall.ret = sigCall.calls[1].ret
        /\ hw = sigCall.before.committed

C14_Witness ==
    /\ sigCall.op = "set_rts" /\ sigCall.arg = <<TRUE>> /\ sigCall.ret.ok
    /\ sig.rts /\ ~sigCall.before.rts
    /\ sigCall.before.timeout = MaxTimeout /\ sigCall.before.dtr

\* C20: PortSettings::set_baud_rate never fails: for every rate, BaudOther(n)
\* included, it returns Ok(()) and the structure then holds that rate, its other
\* fields being as before.
C20_SetBaudRateTotal ==
    psCall.op = "set_baud_rate" =>
        /\ psCall.ret = Ok
        /\ ps.baud_rate = psCall.baud_rate
        /\ ps = [psOld EXCEPT !.baud_rate = psCall.baud_rate]

C20_Witness ==
    /\ psCall.op = "set_baud_rate" /\ psCall.ret = Ok
    /\ psCall.baud_rate = BaudOther(1)
    /\ ps.baud_rate = BaudOther(1)
    /\ psOld.baud_rate = BaudOther(MaxOtherRate)
    /\ psOld.flow_control = "FlowHardware"

\* the positions of the current call's log that invoke the operation named call
At(p, call) == {i \in DOMAIN log[p] : log[p][i].call = call}
MutationCalls ==
    {"set_baud_rate", "set_char_size", "set_parity", "set_stop_bits", "set_flow_control",
     "setup"}

\* C15: a configure or reconfigure call runs read_settings, then the in-memory
\* mutation, then write_settings: it starts with no settings object, reads exactly
\* once, gets the hardware state of that moment, and invokes write_settings at most
\* once, last, and only after its read and its mutation both succeeded.
C15_ReadMutateWriteOrder ==
    \A p \in Ports :
        LET l == log[p]
            n == Len(l)
        IN  /\ pc[p] = "Reading" => l = <<>> /\ dev[p] = None /\ live[p] = None
            /\ pc[p] = "Mutating" => n = 1
            /\ pc[p] = "Committing" => n >= 2 /\ At(p, "write_settings") = {}
            /\ (pc[p] # "Reading" /\ op[p].kind # "none") =>
                  /\ At(p, "read_settings") = {1}
                  /\ l[1].ret.ok => live[p] = Some(hwAtCall[p])
                  /\ \A i \in 2..n : l[i].call \in MutationCalls => l[1].ret.ok
            /\ \A i \in At(p, "write_settings") :
                  /\ i = n /\ i >= 3
                  /\ \A j \in 1..(i - 1) : l[j].ret.ok
                  /\ \A j \in 2..(i - 1) : l[j].call \in MutationCalls

C15_Witness ==
    \E p \in Ports :
        /\ op[p].kind = "reconfigure" /\ pc[p] = "Idle"
        /\ At(p, "read_settings") = {1} /\ At(p, "setup") = {2}
        /\ At(p, "write_settings") = {3}
        /\ hwAtCall[p] \notin InitialHardware
        /\ live[p] = Some(hwAtCall[p])
        /\ hw # hwAtCall[p]

\* C16: in configure the baud-rate setter is the first setter invoked.  When it
\* rejects, no other setter is invoked and nothing is written.  When it accepts and
\* write_settings then fails, all five setters ran in order, write_settings was
\* invoked exactly once and the caller gets the error write_settings returned.
C16_ConfigureBaudFirst ==
    \A p \in Ports :
        op[p].kind = "configure" =>
            LET l == log[p]
                n == Len(l)
            IN  /\ n >= 2 => l[2].call = "set_baud_rate"
                /\ \A i \in DOMAIN l :
                      l[i].call \in MutationCalls \ {"set_baud_rate"} =>
                          /\ i > 2
                          /\ l[2].ret.ok
                /\ (n >= 2 /\ ~l[2].ret.ok) =>
                      /\ n = 2
                      /\ pc[p] = "Idle" /\ ret[p] = Some(l[2].ret)
                      /\ NoWrite(p)
                /\ Failures(p, "write_settings") # {} =>
                      /\ [i \in 1..n |-> l[i].call] =
                            <<"read_settings", "set_baud_rate", "set_char_size", "set_parity",
                              "set_stop_bits", "set_flow_control", "write_settings">>
                      /\ \A i \in 1..6 : l[i].ret.ok
                      /\ pc[p] = "Idle" /\ ret[p] = Some(l[n].ret)

C16_Witness ==
    \E p \in Ports :
        /\ op[p].kind = "configure" /\ pc[p] = "Idle"
        /\ op[p].settings.baud_rate = BaudOther(MaxOtherRate)
        /\ Len(log[p]) = 7
        /\ \E e \in Failures(p, "write_settings") :
              e.error.kind = InvalidInput /\ ret[p] = Some(e)

\* C17: when the read and the mutation succeeded, the call returns exactly what its
\* one write_settings returned; a failed write is followed by no second write
\* and no further read, so write_settings is invoked at most once and read_settings
\* exactly once per call.
C17_ReturnsWriteResult ==
    \A p \in Ports :
        LET l == log[p]
            n == Len(l)
            mutated == n >= 2 /\ \A i \in 1..n : l[i].call # "write_settings" => l[i].ret.ok
        IN  /\ Cardinality(At(p, "write_settings")) <= 1
            /\ (pc[p] = "Idle" /\ mutated) =>
                  /\ Cardinality(At(p, "write_settings")) = 1
                  /\ Cardinality(At(p, "read_settings")) = 1
                  /\ l[n].call = "write_settings"
                  /\ ret[p] = Some(l[n].ret)
            /\ Failures(p, "write_settings") # {} =>
                  /\ pc[p] = "Idle"
                  /\ ~l[n].ret.ok /\ l[n].call = "write_settings"
                  /\ ret[p] = Some(l[n].ret)
                  /\ Cardinality(At(p, "read_settings")) = 1

C17_Witness ==
    \E p \in Ports :
        /\ op[p].kind = "reconfigure" /\ op[p].setup = ToggleStopBits
        /\ pc[p] = "Idle"
        /\ Failures(p, "write_settings") # {}
        /\ ret[p] = Some(log[p][3].ret)
        /\ hw = hwAtCall[p]

\* C19: provided every backend and settings operation returns, a configure or
\* reconfigure call that is reading, mutating or committing eventually is back in
\* Idle with a result, whether the read, the mutation or the write failed or all
\* succeeded.
C19_CallsReturn ==
    (pc[1] \in {"Reading", "Mutating", "Committing"}) ~> (pc[1] = "Idle" /\ IsSome(ret[1]))

C19_Witness ==
    /\ op[1].kind = "configure" /\ pc[1] = "Idle"
    /\ ret[1] = Some(Err(Error_new(InvalidInput, "set_baud_rate")))
    /\ Len(log[1]) = 2
    /\ Fields(hw) = SomeFields(op[1].settings)

\* no reconfigure call has been made on either port instance
ConfigureOnly == \A p \in Ports : op[p].kind \in {"none", "configure"}
\* the ports whose configure call wrote successfully
Committed == {p \in Ports : op[p].kind = "configure" /\ ret[p] = Some(Ok)}

\* C21: with two unsynchronised configure calls on one device, however their reads
\* and writes interleave, the committed five fields are in full the target of the
\* call that wrote last (or the initial ones while no call has written), never a
\* field-wise mix of the two targets.
C21_ConcurrentConfigureNoMix ==
    ConfigureOnly =>
        /\ Fields(hw) = lastOk
        /\ Committed = {} => hw \in InitialHardware
        /\ Committed # {} => \E p \in Committed : Fields(hw) = SomeFields(op[p].settings)

C21_Witness ==
    /\ AllIdle /\ Committed = Ports
    /\ op[1].settings = TargetA /\ op[2].settings = TargetB
    /\ live[1] = live[2] /\ IsSome(live[1])
    /\ Unwrap(live[1]) \in InitialHardware
    /\ Fields(hw) = SomeFields(TargetA)

\* the field a PortSettings setter is for
SetterField ==
    [set_baud_rate |-> "baud_rate", set_char_size |-> "char_size", set_parity |-> "parity",
     set_stop_bits |-> "stop_bits", set_flow_control |-> "flow_control"]
Getter(self) ==
    [baud_rate |-> PortSettings_baud_rate(self), char_size |-> PortSettings_char_size(self),
     parity |-> PortSettings_parity(self), stop_bits |-> PortSettings_stop_bits(self),
     flow_control |-> PortSettings_flow_control(self)]

\* C22: a PortSettings setter changes its own field only: after any of the five
\* setters the getters of the other four fields return what they returned before.
C22_SettersChangeOwnFieldOnly ==
    psCall.op \in DOMAIN SetterField =>
        \A f \in FieldNames \ {SetterField[psCall.op]} : Getter(ps)[f] = Getter(psOld)[f]

C22_Witness ==
    /\ psCall.op = "set_char_size" /\ psCall.value = "Bits8"
    /\ psOld.char_size = "Bits5" /\ ps.char_size = "Bits8"
    /\ psOld.baud_rate = BaudOther(1) /\ psOld.parity = "ParityOdd"
    /\ psOld.stop_bits = "Stop2" /\ psOld.flow_control = "FlowSoftware"
    /\ ps = [psOld EXCEPT !.char_size = "Bits8"]

\* C23: configure hands write_settings the object it got from read_settings: what
\* that object holds outside the five vocabulary fields is the same in the object
\* written as in the object read in the same call.
C23_ConfigureWritesBackReadObject ==
    \A p \in Ports :
        (op[p].kind = "configure" /\ IsSome(written[p])) =>
            /\ IsSome(live[p])
            /\ Unwrap(written[p]).native = Unwrap(live[p]).native
            /\ Unwrap(written[p]) =
                  [Unwrap(live[p]) EXCEPT
                      !.baud_rate = Some(op[p].settings.baud_rate),
                      !.char_size = Some(op[p].settings.char_size),
                      !.parity = Some(op[p].settings.parity),
                      !.stop_bits = Some(op[p].settings.stop_bits),
                      !.flow_control = Some(op[p].settings.flow_control)]

C23_Witness ==
    \E p \in Ports :
        /\ op[p].kind = "configure" /\ IsSome(written[p]) /\ IsSome(live[p])
        /\ Unwrap(live[p]).native = 1 /\ Unwrap(written[p]).native = 1
        /\ Fields(Unwrap(written[p])) # Fields(Unwrap(live[p]))
        /\ ret[p] = Some(Ok) /\ hw.native = 1

=============================================================================
